---- MODULE Spec2Model ----
(***************************************************************************)
(* Verification model of three headers of HamiltonianSolver_ed_vqmc:       *)
(*   - algebra/global_symmetries.h   (GlobalSyms::GlobalSym, U1Sym)        *)
(*   - models/quadratic/SYK2.h       (SYK2<_T>)                            *)
(*   - user_interface/user_interface_modp.hpp (UI_PARAMS::ModP)            *)
(* Each header has its own specifications (SpecSector and SpecGen for the  *)
(* symmetry generator, SpecCtor and SpecSYK for the SYK2 model, SpecModP   *)
(* for the parameter record); the variables of the other headers keep      *)
(* their initial value in them.                                            *)
(***************************************************************************)
EXTENDS Integers, Sequences, FiniteSets, TLC

VARIABLES
    gen,        \* GenIds -> GlobalSym object (name_, check_, val_, lat_)
    symRet,     \* outcome of the last operator() / check() / chained check call
    sector,     \* outcome of the last basis enumeration
    lattice,    \* the shared Lattice object: site count and boundary condition
    model,      \* Slots -> SYK2 object, or NoModel before construction
    sykRet,     \* the last SYK2 operation and what it returned
    dirty,      \* Slots -> parameters changed since info_ was last assigned
    modp,       \* the ModP parameter record
    modpRet,    \* the last ModP operation and its outcome
    nCalls      \* number of calls made so far that change the parameter record

symVars == <<gen, symRet, sector>>

sykVars == <<lattice, model, sykRet, dirty>>

modpVars == <<modp, modpRet, nCalls>>

vars == <<gen, symRet, sector, lattice, model, sykRet, dirty, modp, modpRet, nCalls>>

(***************************************************************************)
(* Bounds                                                                  *)
(***************************************************************************)
\* largest site count of an enumerated sector
MaxNs == 4
\* number of bits of the states handed to operator() / check() in SpecGen
StateBits == 2
\* largest target value set in SpecGen
MaxVal == 1
\* largest site count of a lattice, a Hilbert space or a SYK2 model
MaxSites == 2
\* number of hamiltonian() calls drawn from one random stream
MaxDraws == 2
\* largest count (sites, sub-population, sweep points, list length) written
\* into the parameter record
MaxCount == 2
\* number of calls that change the parameter record (member writes, resizes,
\* setDefault)
MaxCalls == 3

(***************************************************************************)
(* global_symmetries.h                                                     *)
(***************************************************************************)
GenIds == {"g1", "g2"}

\* enum GlobalSymGenerators
GlobalSymGenerators == {"U1", "OTHER"}

\* the callables handed to setFun: the header's U1Sym and one externally
\* supplied predicate of the same signature (parity of the occupation equals
\* the value); "empty" is a default-constructed std::function
Funs == {"U1Sym", "ParityEq"}

Pow2(n) == 2^n

States(ns) == 0 .. (Pow2(ns) - 1)

\* std::popcount(u64)
RECURSIVE popcountWrong(_)
popcountWrong(x) == IF x = 0 THEN 0 ELSE (IF x % 2 = 1 THEN 1 ELSE 0) + popcountWrong(x \div 4)

RECURSIVE popcount(_)
popcount(x) == IF x = 0 THEN 0 ELSE (x % 2) + popcount(x \div 2)

\* inline auto U1Sym(u64 _state, double _val) -> bool
U1SymAtLeast(_state, _val) == popcount(_state) >= _val

U1Sym(_state, _val) == popcount(_state) = _val

\* GlobalSym(std::shared_ptr<Lattice> _lat, GlobalSymGenerators _name = OTHER):
\* val_(0), lat_(_lat), name_(_name); check_ is left default-constructed
GlobalSym(_lat, _name) ==
    [name_ |-> _name, check_ |-> "empty", val_ |-> 0, lat_ |-> _lat]

setFun(self, _fun) == [self EXCEPT !.check_ = _fun]

setName(self, _name) == [self EXCEPT !.name_ = _name]

getName(self) == self.name_

getVal(self) == self.val_

\* the call this->check_(state, val_) of a std::function<bool(u64, double)>:
\* an empty std::function throws std::bad_function_call
InvokeDefaultsFalse(fun, state, val) ==
    IF fun = "empty" THEN "false"
    ELSE IF fun = "U1Sym" THEN (IF U1Sym(state, val) THEN "true" ELSE "false")
    ELSE (IF popcount(state) % 2 = val THEN "true" ELSE "false")

Invoke(fun, state, val) ==
    IF fun = "empty" THEN "bad_function_call"
    ELSE IF fun = "U1Sym" THEN (IF U1Sym(state, val) THEN "true" ELSE "false")
    ELSE (IF popcount(state) % 2 = val THEN "true" ELSE "false")

\* virtual auto operator()(u64 state) (const and non-const overloads)
callOp(self, state) == Invoke(self.check_, state, self.val_)

\* auto check(u64 state, bool outCond) const
checkIgnoresOuter(self, state, outCond) == Invoke(self.check_, state, self.val_)

check(self, state, outCond) ==
    LET r == Invoke(self.check_, state, self.val_)
    IN  IF r = "bad_function_call" THEN r
        ELSE IF r = "true" /\ outCond THEN "true" ELSE "false"

\* g_second.check(state, g_first.check(state, true)): the chained composition
chain(first, second, state) ==
    LET r1 == check(first, state, TRUE)
    IN  IF r1 = "bad_function_call" THEN r1
        ELSE check(second, state, r1 = "true")

\* Membership test of a combination (a sequence of generators): the AND of
\* the evaluations, left to right, stopping at the first failure
RECURSIVE accepts(_, _, _)
accepts(by, i, state) ==
    IF i > Len(by) THEN "true"
    ELSE LET r == callOp(by[i], state)
         IN  IF r = "true" THEN accepts(by, i + 1, state) ELSE r

\* Sector enumeration: candidates 0 .. 2^Ns - 1 in ascending order, a state
\* is retained iff the combination accepts it; an error ends the enumeration
RECURSIVE enumerate(_, _, _, _)
enumerate(by, state, last, acc) ==
    IF state > last THEN [states |-> acc, err |-> "none"]
    ELSE LET r == accepts(by, 1, state)
         IN  IF r = "bad_function_call" THEN [states |-> acc, err |-> r]
             ELSE enumerate(by, state + 1, last,
                            IF r = "true" THEN Append(acc, state) ELSE acc)

NoRet == [op |-> "none", g |-> "g1", state |-> 0, outCond |-> TRUE, out |-> "none"]

NoSector == [built |-> FALSE, ns |-> 0, by |-> <<>>, states |-> <<>>, err |-> "none"]

SetFun(g, f) ==
    /\ gen' = [gen EXCEPT ![g] = setFun(gen[g], f)]
    /\ UNCHANGED <<symRet, sector, sykVars, modpVars>>

SetName(g, n) ==
    /\ gen' = [gen EXCEPT ![g] = setName(gen[g], n)]
    /\ UNCHANGED <<symRet, sector, sykVars, modpVars>>

\* val_ is a public member, written directly
SetVal(g, v) ==
    /\ gen' = [gen EXCEPT ![g].val_ = v]
    /\ UNCHANGED <<symRet, sector, sykVars, modpVars>>

Eval(g, s) ==
    /\ symRet' = [op |-> "call", g |-> g, state |-> s, outCond |-> TRUE,
                  out |-> callOp(gen[g], s)]
    /\ UNCHANGED <<gen, sector, sykVars, modpVars>>

Check(g, s, oc) ==
    /\ symRet' = [op |-> "check", g |-> g, state |-> s, outCond |-> oc,
                  out |-> check(gen[g], s, oc)]
    /\ UNCHANGED <<gen, sector, sykVars, modpVars>>

\* g names the generator checked first; the other one is checked second
Chain(g, s) ==
    /\ symRet' = [op |-> "chain", g |-> g, state |-> s, outCond |-> TRUE,
                  out |-> chain(gen[g], gen[CHOOSE h \in GenIds : h # g], s)]
    /\ UNCHANGED <<gen, sector, sykVars, modpVars>>

BuildSector(comb, ns) ==
    /\ LET by == [i \in 1 .. Len(comb) |-> gen[comb[i]]]
           r  == enumerate(by, 0, Pow2(ns) - 1, <<>>)
       IN  sector' = [built |-> TRUE, ns |-> ns, by |-> by,
                      states |-> r.states, err |-> r.err]
    /\ UNCHANGED <<gen, symRet, sykVars, modpVars>>

(***************************************************************************)
(* SYK2.h                                                                  *)
(***************************************************************************)
Slots == {"a", "b"}

\* the scalar types SYK2<_T> is instantiated with
ScalarTypes == {"double", "cpx"}

\* the boundary conditions of the lattice and their names
\* (getSTR_BoundaryConditions)
BoundaryConditions == {"PBC", "OBC"}

NoModel == [built |-> FALSE]

\* dense matrices: n_rows x n_cols elements re + i im, each divided by
\* sqrt(den)
Elem(re, im) == [re |-> re, im |-> im]

Mat(n, m, den, mem) == [n_rows |-> n, n_cols |-> m, den |-> den, mem |-> mem]

\* arma::zeros(n, m)
zeros(n, m) == Mat(n, m, 1, [i \in 1 .. n |-> [j \in 1 .. m |-> Elem(0, 0)]])

EmptyMat == zeros(0, 0)

IsZero(A) == \A i \in 1 .. A.n_rows, j \in 1 .. A.n_cols : A.mem[i][j] = Elem(0, 0)

\* ran_.GOE<_T>(n, n): the sample the stream gives at position r; symmetric,
\* real, no entry zero, and every entry differs between consecutive positions
GOE(r, n) ==
    Mat(n, n, 1, [i \in 1 .. n |-> [j \in 1 .. n |-> Elem(1 + ((r + i * j) % 3), 0)]])

\* M / std::sqrt(d)
DivSqrt(M, d) == [M EXCEPT !.den = M.den * d]

\* algebra::cast<_T>(I): the imaginary unit in _T, its real part when _T is real
castI(T) == IF T = "cpx" THEN Elem(0, 1) ELSE Elem(0, 0)

\* scalar * matrix
Times(c, M) ==
    Mat(M.n_rows, M.n_cols, M.den,
        [i \in 1 .. M.n_rows |-> [j \in 1 .. M.n_cols |->
            Elem(c.re * M.mem[i][j].re - c.im * M.mem[i][j].im,
                 c.re * M.mem[i][j].im + c.im * M.mem[i][j].re)]])

\* matrix + matrix of the same size (a zero summand leaves the other one)
Plus(A, B) ==
    IF IsZero(B) THEN A
    ELSE IF IsZero(A) THEN B
    ELSE Mat(A.n_rows, A.n_cols, A.den,
             [i \in 1 .. A.n_rows |-> [j \in 1 .. A.n_cols |->
                 Elem(A.mem[i][j].re + B.mem[i][j].re,
                      A.mem[i][j].im + B.mem[i][j].im)]])

\* QuadraticHamiltonian<_T>::info(name, skip, sep): appends the parameters of
\* the quadratic base that are not skipped; SYK2 adds none of its own
baseInfo(name, skip, sep) == name

\* std::string info(const v_1d<std::string>& skip = {}, std::string sep = "_",
\* int prec = 2) const. The string is kept as the sequence of the pieces it
\* is concatenated from: sep, "SYK2,Ns=", STR(Ns), ",BC=", the name of BC.
info(self, skip, sep, prec) ==
    LET Ns == self.Ns_
        BC == IF self.lat_ # "null" THEN lattice.BC ELSE "PBC"
        name == <<sep, "SYK2,Ns=", ToString(Ns), ",BC=", BC>>
    IN  baseInfo(name, skip, sep)

infoDefault(self) == info(self, {}, "_", 2)

\* the positions of the pieces of info() that render a parameter
FieldOf == [Ns |-> 3, BC |-> 5]

\* QuadraticHamiltonian<_T>(lattice | site count | Hilbert space, _constant,
\* true, false): the base object before the body of the SYK2 constructor
QuadraticHamiltonian(T, path, ns, lat, constant) ==
    [built |-> TRUE, T |-> T, path |-> path, type_ |-> "NONE",
     Ns_ |-> ns, Nh |-> ns, lat_ |-> lat, constant_ |-> constant,
     info_ |-> <<>>, H_ |-> EmptyMat, ran_ |-> 0]

\* the body shared by the four constructors
ctorBodyKeepsInfo(base) == [base EXCEPT !.type_ = "SYK2_M"]

ctorBody(base) ==
    [base EXCEPT !.type_ = "SYK2_M",
                 !.info_ = infoDefault([base EXCEPT !.type_ = "SYK2_M"])]

\* SYK2(std::shared_ptr<Lattice> _lat, double _constant = 0.0)
SYK2_lat(T, constant) ==
    ctorBody(QuadraticHamiltonian(T, "lattice", lattice.Ns, "lat", constant))

\* SYK2(uint _Ns, double _constant = 0.0)
SYK2_Ns(T, _Ns, constant) ==
    ctorBody(QuadraticHamiltonian(T, "sites", _Ns, "null", constant))

\* SYK2(const Hilbert::HilbertSpace<_T>& _hil, double _constant = 0.0)
SYK2_hil(T, _hil, constant) ==
    ctorBody(QuadraticHamiltonian(T, "hilbert", _hil.Ns, _hil.lat, constant))

\* SYK2(Hilbert::HilbertSpace<_T>&& _hil, double _constant = 0.0)
SYK2_hilMove(T, _hil, constant) ==
    ctorBody(QuadraticHamiltonian(T, "hilbertMove", _hil.Ns, _hil.lat, constant))

\* the Hilbert spaces handed to the constructors: over the shared lattice, or
\* over a bare site count
HilbertSpaces ==
    {[Ns |-> lattice.Ns, lat |-> "lat"]}
        \cup {[Ns |-> n, lat |-> "null"] : n \in 1 .. MaxSites}

\* Hamiltonian<_T>::init(): allocates the Nh x Nh buffer, zeroed
init(self) == [self EXCEPT !.H_ = zeros(self.Nh, self.Nh)]

\* void hamiltonian() override
hamiltonianAdds(self) ==
    [self EXCEPT !.H_ = Plus(self.H_, DivSqrt(GOE(self.ran_, self.Nh), self.Nh)),
                 !.ran_ = self.ran_ + 1]

hamiltonian(self) ==
    LET s0 == init(self)
    IN  [s0 EXCEPT !.H_ = Plus(DivSqrt(GOE(s0.ran_, s0.Nh), s0.Nh),
                               Times(castI(s0.T), zeros(s0.Nh, s0.Nh))),
                   !.ran_ = s0.ran_ + 1]

\* void updateInfo() override final
updateInfoKeeps(self) == self

updateInfo(self) == [self EXCEPT !.info_ = infoDefault(self)]

NoSykRet == [op |-> "none", slot |-> "a", sep |-> "_", skip |-> {}, out |-> <<>>]

Constructed(x, m, op) ==
    /\ ~model[x].built
    /\ model' = [model EXCEPT ![x] = m]
    /\ sykRet' = [op |-> op, slot |-> x, sep |-> "_", skip |-> {}, out |-> <<>>]
    /\ dirty' = [dirty EXCEPT ![x] = {}]
    /\ UNCHANGED <<lattice, symVars, modpVars>>

ConstructLat(x, T) == Constructed(x, SYK2_lat(T, 0), "SYK2")

ConstructNs(x, T, n) == Constructed(x, SYK2_Ns(T, n, 0), "SYK2")

ConstructHil(x, T, h) == Constructed(x, SYK2_hil(T, h, 0), "SYK2")

ConstructHilMove(x, T, h) == Constructed(x, SYK2_hilMove(T, h, 0), "SYK2")

Hamiltonian(x) ==
    /\ model[x].built
    /\ model[x].ran_ < MaxDraws
    /\ model' = [model EXCEPT ![x] = hamiltonian(model[x])]
    /\ sykRet' = [op |-> "hamiltonian", slot |-> x, sep |-> "_", skip |-> {}, out |-> <<>>]
    /\ UNCHANGED <<lattice, dirty, symVars, modpVars>>

Info(x, skip, sep, prec) ==
    /\ model[x].built
    /\ sykRet' = [op |-> "info", slot |-> x, sep |-> sep, skip |-> skip,
                  out |-> info(model[x], skip, sep, prec)]
    /\ UNCHANGED <<lattice, model, dirty, symVars, modpVars>>

UpdateInfo(x) ==
    /\ model[x].built
    /\ model' = [model EXCEPT ![x] = updateInfo(model[x])]
    /\ sykRet' = [op |-> "updateInfo", slot |-> x, sep |-> "_", skip |-> {}, out |-> <<>>]
    /\ dirty' = [dirty EXCEPT ![x] = {}]
    /\ UNCHANGED <<lattice, symVars, modpVars>>

\* a parameter setter of the model: the site count (and with it the size of
\* the quadratic form); the cached string is not refreshed
SetSites(x, n) ==
    /\ model[x].built
    /\ model' = [model EXCEPT ![x].Ns_ = n, ![x].Nh = n]
    /\ sykRet' = [op |-> "setSites", slot |-> x, sep |-> "_", skip |-> {}, out |-> <<>>]
    /\ dirty' = [dirty EXCEPT ![x] = IF n = model[x].Ns_ THEN @ ELSE @ \cup {"Ns"}]
    /\ UNCHANGED <<lattice, symVars, modpVars>>

\* the owner of the shared lattice changes its boundary condition; every
\* model that holds the lattice sees it
SetBC(bc) ==
    /\ lattice' = [lattice EXCEPT !.BC = bc]
    /\ sykRet' = [op |-> "setBC", slot |-> "a", sep |-> "_", skip |-> {}, out |-> <<>>]
    /\ dirty' = [x \in Slots |->
                    IF model[x].built /\ model[x].lat_ # "null" /\ bc # lattice.BC
                    THEN dirty[x] \cup {"BC"} ELSE dirty[x]]
    /\ UNCHANGED <<model, symVars, modpVars>>

(***************************************************************************)
(* user_interface_modp.hpp                                                 *)
(***************************************************************************)
\* size_t / u64 arithmetic: a value is four 16-bit limbs, lowest first
Limb == 2^16

U64(n) == <<n % Limb, (n \div Limb) % Limb, 0, 0>>

\* a - b modulo 2^64
SubU64(a, b) ==
    LET d1 == a[1] - b[1]
        c1 == IF d1 < 0 THEN 1 ELSE 0
        d2 == a[2] - b[2] - c1
        c2 == IF d2 < 0 THEN 1 ELSE 0
        d3 == a[3] - b[3] - c2
        c3 == IF d3 < 0 THEN 1 ELSE 0
        d4 == a[4] - b[4] - c3
    IN  <<(d1 + Limb) % Limb, (d2 + Limb) % Limb, (d3 + Limb) % Limb, (d4 + Limb) % Limb>>

\* a < b, unsigned
LessU64(a, b) ==
    \/ a[4] < b[4]
    \/ a[4] = b[4] /\ a[3] < b[3]
    \/ a[4] = b[4] /\ a[3] = b[3] /\ a[2] < b[2]
    \/ a[4] = b[4] /\ a[3] = b[3] /\ a[2] = b[2] /\ a[1] < b[1]

\* the conversion int -> size_t
IntToU64(v) == IF v >= 0 THEN U64(v) ELSE SubU64(U64(0), U64(-v))

\* the value of a size_t that fits one limb
Small(a) == a[2] = 0 /\ a[3] = 0 /\ a[4] = 0

\* std::vector<double>::max_size(): PTRDIFF_MAX / sizeof(double) = 2^60 - 1
MaxSizeDouble == <<Limb - 1, Limb - 1, Limb - 1, (2^12) - 1>>

\* std::vector<double>::resize(n): std::length_error above max_size(),
\* std::bad_alloc when the storage cannot be had, else the first n elements,
\* padded with 0.0
resize(v, n) ==
    IF LessU64(MaxSizeDouble, n) THEN [err |-> "length_error", v |-> v]
    ELSE IF ~Small(n) THEN [err |-> "bad_alloc", v |-> v]
    ELSE [err |-> "none",
          v |-> [i \in 1 .. n[1] |-> IF i <= Len(v) THEN v[i] ELSE "0.0"]]

\* v_1d<double>(n, x)
filled(n, x) == [i \in 1 .. n |-> x]

\* the scalar members and the defaults their declarations give them
Declared ==
    [modTyp_ |-> "ISING_M", modRanSeed_ |-> 0, modRanNIdx_ |-> 0,
     J1_ |-> "1.0", hz_ |-> "1.0", hx_ |-> "1.0",
     J2_ |-> "2.0", eta1_ |-> "0.5", eta2_ |-> "0.5", dlt1_ |-> "0.3", dlt2_ |-> "0.3",
     qsm_N_ |-> 1, qsm_Ntot_ |-> 1, qsm_gamma_ |-> "1.0", qsm_g0_ |-> "1.0",
     rp_single_particle_ |-> FALSE, rp_be_real_ |-> TRUE, rp_g_sweep_n_ |-> 1,
     um_N_ |-> 1, um_Ntot_ |-> 1, um_g_ |-> "1.0",
     aa_J_ |-> "1.0", aa_lambda_ |-> "0.5", aa_beta_ |-> "(1+sqrt(5))/2", aa_phi_ |-> "1.0",
     plrb_b_ |-> "1.0", plrb_mb_ |-> FALSE]

\* the vector members, empty after construction
Vectors ==
    {"modRanN_", "operators", "Kx_", "Ky_", "Kz_", "heiJ_", "heiDlt_", "heiHx_",
     "heiHz_", "qsm_alpha_", "qsm_xi_", "qsm_h_", "rp_g_", "um_alpha_", "plrb_a_"}

\* the range members written by the resize operations
Ranges == {"qsm_alpha_r_", "qsm_xi_r_", "qsm_h_r_", "um_alpha_r_"}

\* struct ModP after construction
ModP ==
    [k \in (DOMAIN Declared) \cup Vectors \cup Ranges |->
        IF k \in DOMAIN Declared THEN Declared[k]
        ELSE IF k \in Vectors THEN <<>> ELSE 0]

\* the families of models and their members
Families ==
    [Ising |-> [arrays |-> {}, scalars |-> {"J1_", "hz_", "hx_"}],
     XYZ |-> [arrays |-> {}, scalars |-> {"J2_", "eta1_", "eta2_", "dlt1_", "dlt2_"}],
     Kitaev |-> [arrays |-> {"Kx_", "Ky_", "Kz_"}, scalars |-> {}],
     Heisenberg |-> [arrays |-> {"heiJ_", "heiDlt_", "heiHx_", "heiHz_"}, scalars |-> {}],
     QSM |-> [arrays |-> {"qsm_alpha_", "qsm_xi_", "qsm_h_"},
              scalars |-> {"qsm_N_", "qsm_Ntot_", "qsm_gamma_", "qsm_g0_"}],
     RosenzweigPorter |-> [arrays |-> {"rp_g_"},
              scalars |-> {"rp_single_particle_", "rp_be_real_", "rp_g_sweep_n_"}],
     Ultrametric |-> [arrays |-> {"um_alpha_"}, scalars |-> {"um_N_", "um_Ntot_", "um_g_"}],
     AubryAndre |-> [arrays |-> {},
              scalars |-> {"aa_J_", "aa_lambda_", "aa_beta_", "aa_phi_"}],
     PowerLawRandomBandwidth |-> [arrays |-> {"plrb_a_"},
              scalars |-> {"plrb_b_", "plrb_mb_"}]]

Done(s) == [err |-> "none", s |-> s]

\* void resizeKitaev(const size_t Ns)
resizeKitaev(self, Ns) ==
    LET x == resize(self.Kx_, Ns)
        y == resize(self.Ky_, Ns)
        z == resize(self.Kz_, Ns)
    IN  IF x.err # "none" THEN [err |-> x.err, s |-> self]
        ELSE IF y.err # "none" THEN [err |-> y.err, s |-> [self EXCEPT !.Kx_ = x.v]]
        ELSE IF z.err # "none"
             THEN [err |-> z.err, s |-> [self EXCEPT !.Kx_ = x.v, !.Ky_ = y.v]]
        ELSE Done([self EXCEPT !.Kx_ = x.v, !.Ky_ = y.v, !.Kz_ = z.v])

\* void resizeHeisenberg(const size_t Ns)
resizeHeisenberg(self, Ns) ==
    LET a == resize(self.heiJ_, Ns)
        b == resize(self.heiDlt_, Ns)
        c == resize(self.heiHx_, Ns)
        d == resize(self.heiHz_, Ns)
    IN  IF a.err # "none" THEN [err |-> a.err, s |-> self]
        ELSE IF b.err # "none" THEN [err |-> b.err, s |-> [self EXCEPT !.heiJ_ = a.v]]
        ELSE IF c.err # "none"
             THEN [err |-> c.err, s |-> [self EXCEPT !.heiJ_ = a.v, !.heiDlt_ = b.v]]
        ELSE IF d.err # "none"
             THEN [err |-> d.err,
                   s |-> [self EXCEPT !.heiJ_ = a.v, !.heiDlt_ = b.v, !.heiHx_ = c.v]]
        ELSE Done([self EXCEPT !.heiJ_ = a.v, !.heiDlt_ = b.v, !.heiHx_ = c.v,
                               !.heiHz_ = d.v])

\* void qsm_t::resizeQSM(): _N is a size_t, so _N < 0 compares unsigned
resizeQSM(self) ==
    LET _N == SubU64(U64(self.qsm_Ntot_), U64(self.qsm_N_))
        s1 == [self EXCEPT !.qsm_alpha_r_ = 0]
        a  == resize(s1.qsm_alpha_, SubU64(U64(s1.qsm_Ntot_), U64(s1.qsm_N_)))
        s2 == [s1 EXCEPT !.qsm_alpha_ = a.v, !.qsm_xi_r_ = 0]
        x  == resize(s2.qsm_xi_, SubU64(U64(s2.qsm_Ntot_), U64(s2.qsm_N_)))
        s3 == [s2 EXCEPT !.qsm_xi_ = x.v, !.qsm_h_r_ = 0]
        h  == resize(s3.qsm_h_, _N)
    IN  IF LessU64(_N, U64(0)) THEN Done(self)
        ELSE IF a.err # "none" THEN [err |-> a.err, s |-> s1]
        ELSE IF x.err # "none" THEN [err |-> x.err, s |-> s2]
        ELSE IF h.err # "none" THEN [err |-> h.err, s |-> s3]
        ELSE Done([s3 EXCEPT !.qsm_h_ = h.v])

\* void rosenzweig_porter_t::resizeRP(): the int rp_g_sweep_n_ becomes a size_t
resizeRP(self) ==
    LET g == resize(self.rp_g_, IntToU64(self.rp_g_sweep_n_))
    IN  IF g.err # "none" THEN [err |-> g.err, s |-> self]
        ELSE Done([self EXCEPT !.rp_g_ = g.v])

\* void ultrametric_t::resizeUM()
resizeUM(self) ==
    LET _N == SubU64(U64(self.um_Ntot_), U64(self.um_N_))
        s1 == [self EXCEPT !.um_alpha_r_ = 0]
        a  == resize(s1.um_alpha_, _N)
    IN  IF LessU64(_N, U64(0)) THEN Done(self)
        ELSE IF a.err # "none" THEN [err |-> a.err, s |-> s1]
        ELSE Done([s1 EXCEPT !.um_alpha_ = a.v])

\* the element read by modRanN_[idx]: the element when idx is inside the
\* list; outside it the read is undefined: it faults, or yields whatever the
\* memory holds
readRanN(self, idx) ==
    IF LessU64(idx, U64(Len(self.modRanN_)))
    THEN {[err |-> "none", ret |-> self.modRanN_[idx[1] + 1], idx |-> idx]}
    ELSE {[err |-> "segfault", ret |-> 0, idx |-> idx]}
             \cup {[err |-> "none", ret |-> r, idx |-> idx] : r \in {0, 1, Limb - 1}}

\* uint getRanReal(uint i) const
getRanReal(self, i) ==
    LET size == U64(Len(self.modRanN_))
    IN  readRanN(self, IF LessU64(U64(i), size) THEN U64(i) ELSE SubU64(size, U64(1)))

\* uint getRanReal() const
getRanRealIdx(self) == getRanReal(self, self.modRanNIdx_)

\* void setDefault()
setDefault(self) ==
    [self EXCEPT
        !.modTyp_ = Declared.modTyp_,
        !.operators = <<"sz/L", "sz/1">>,
        !.modRanN_ = <<1>>,
        !.J1_ = Declared.J1_, !.hz_ = Declared.hz_, !.hx_ = Declared.hx_,
        !.J2_ = Declared.J2_, !.eta1_ = Declared.eta1_, !.eta2_ = Declared.eta2_,
        !.dlt1_ = Declared.dlt1_, !.dlt2_ = Declared.dlt2_,
        !.Kx_ = filled(1, "1.0"), !.Ky_ = filled(1, "1.0"), !.Kz_ = filled(1, "1.0"),
        !.heiJ_ = filled(1, "1.0"), !.heiDlt_ = filled(1, "1.0"),
        !.heiHz_ = filled(1, "1.0"), !.heiHx_ = filled(1, "1.0"),
        !.qsm_gamma_ = Declared.qsm_gamma_, !.qsm_g0_ = Declared.qsm_g0_,
        !.qsm_Ntot_ = Declared.qsm_Ntot_, !.qsm_N_ = Declared.qsm_N_,
        !.qsm_alpha_ = filled(1, "1.0"), !.qsm_xi_ = filled(1, "1.0"),
        !.qsm_h_ = filled(1, "1.0"),
        !.rp_g_ = filled(1, "1.0"),
        !.aa_J_ = Declared.aa_J_, !.aa_lambda_ = Declared.aa_lambda_,
        !.aa_beta_ = Declared.aa_beta_, !.aa_phi_ = Declared.aa_phi_]

\* bool checkComplex() const
checkComplex(self) == self.modTyp_ = "FREE_FERMIONS_M"

NoModpRet == [op |-> "none", err |-> "none", ret |-> 0, idx |-> U64(0), arg |-> 0]

Ret(op, err) == [op |-> op, err |-> err, ret |-> 0, idx |-> U64(0), arg |-> 0]

\* the values a caller (the command line parser) writes into a member
Written ==
    [modTyp_ |-> {"FREE_FERMIONS_M"}, modRanNIdx_ |-> 0 .. MaxCount,
     J1_ |-> {"0.7"}, qsm_gamma_ |-> {"0.7"},
     qsm_N_ |-> 0 .. MaxCount, qsm_Ntot_ |-> 0 .. MaxCount,
     rp_g_sweep_n_ |-> (-1) .. MaxCount, rp_be_real_ |-> {FALSE},
     um_N_ |-> 0 .. MaxCount, um_Ntot_ |-> 0 .. MaxCount, um_g_ |-> {"0.7"},
     aa_phi_ |-> {"0.7"}, plrb_b_ |-> {"0.7"},
     modRanN_ |-> {<<>>, <<2>>, <<2, 1>>},
     plrb_a_ |-> {<<"0.7">>}, um_alpha_ |-> {<<"0.7">>}]

Write(k, v) ==
    /\ nCalls < MaxCalls
    /\ modp' = [modp EXCEPT ![k] = v]
    /\ modpRet' = Ret("write", "none")
    /\ nCalls' = nCalls + 1
    /\ UNCHANGED <<symVars, sykVars>>

Resized(r, op) ==
    /\ nCalls < MaxCalls
    /\ modp' = r.s
    /\ modpRet' = Ret(op, r.err)
    /\ nCalls' = nCalls + 1
    /\ UNCHANGED <<symVars, sykVars>>

ResizeKitaev(Ns) == Resized(resizeKitaev(modp, U64(Ns)), "resizeKitaev")

ResizeHeisenberg(Ns) == Resized(resizeHeisenberg(modp, U64(Ns)), "resizeHeisenberg")

ResizeQSM == Resized(resizeQSM(modp), "resizeQSM")

ResizeRP == Resized(resizeRP(modp), "resizeRP")

ResizeUM == Resized(resizeUM(modp), "resizeUM")

SetDefault ==
    /\ nCalls < MaxCalls
    /\ modp' = setDefault(modp)
    /\ modpRet' = Ret("setDefault", "none")
    /\ nCalls' = nCalls + 1
    /\ UNCHANGED <<symVars, sykVars>>

GetRanReal(i) ==
    /\ \E r \in getRanReal(modp, i) :
           modpRet' = [op |-> "getRanReal", err |-> r.err, ret |-> r.ret,
                       idx |-> r.idx, arg |-> i]
    /\ UNCHANGED <<modp, nCalls, symVars, sykVars>>

GetRanRealIdx ==
    /\ \E r \in getRanRealIdx(modp) :
           modpRet' = [op |-> "getRanReal", err |-> r.err, ret |-> r.ret,
                       idx |-> r.idx, arg |-> modp.modRanNIdx_]
    /\ UNCHANGED <<modp, nCalls, symVars, sykVars>>

CheckComplex ==
    /\ modpRet' = [Ret("checkComplex", "none") EXCEPT
                      !.ret = IF checkComplex(modp) THEN 1 ELSE 0]
    /\ UNCHANGED <<modp, nCalls, symVars, sykVars>>

(***************************************************************************)
(* Specifications                                                          *)
(***************************************************************************)
NextSector ==
    \/ \E f \in Funs : SetFun("g1", f)
    \/ \E v \in 0 .. (MaxNs + 1) : SetVal("g1", v)
    \/ \E comb \in {<<>>, <<"g1">>}, ns \in 1 .. MaxNs : BuildSector(comb, ns)

NextGen ==
    \/ \E g \in GenIds, f \in Funs : SetFun(g, f)
    \/ \E g \in GenIds, n \in GlobalSymGenerators : SetName(g, n)
    \/ \E g \in GenIds, v \in 0 .. MaxVal : SetVal(g, v)
    \/ \E g \in GenIds, s \in States(StateBits) : Eval(g, s)
    \/ \E g \in GenIds, s \in States(StateBits), oc \in BOOLEAN : Check(g, s, oc)
    \/ \E g \in GenIds, s \in States(StateBits) : Chain(g, s)

\* two models built side by side, each by any of the four constructors
NextCtor ==
    \/ \E x \in Slots, T \in ScalarTypes : ConstructLat(x, T)
    \/ \E x \in Slots, T \in ScalarTypes, n \in 1 .. MaxSites : ConstructNs(x, T, n)
    \/ \E x \in Slots, T \in ScalarTypes, h \in HilbertSpaces : ConstructHil(x, T, h)
    \/ \E x \in Slots, T \in ScalarTypes, h \in HilbertSpaces : ConstructHilMove(x, T, h)
    \/ \E x \in Slots : Hamiltonian(x)

\* the life of one model
NextSYK ==
    \/ \E T \in ScalarTypes : ConstructLat("a", T)
    \/ \E T \in ScalarTypes, n \in 1 .. MaxSites : ConstructNs("a", T, n)
    \/ \E T \in ScalarTypes, h \in HilbertSpaces : ConstructHil("a", T, h)
    \/ \E T \in ScalarTypes, h \in HilbertSpaces : ConstructHilMove("a", T, h)
    \/ Hamiltonian("a")
    \/ \E skip \in {{}, {"BC"}}, sep \in {"_", ","}, prec \in {2} : Info("a", skip, sep, prec)
    \/ UpdateInfo("a")
    \/ \E n \in 1 .. MaxSites : SetSites("a", n)
    \/ \E bc \in BoundaryConditions : SetBC(bc)

\* the life of one parameter record
NextModP ==
    \/ \E k \in DOMAIN Written : \E v \in Written[k] : Write(k, v)
    \/ \E Ns \in 0 .. MaxCount : ResizeKitaev(Ns)
    \/ \E Ns \in 0 .. MaxCount : ResizeHeisenberg(Ns)
    \/ ResizeQSM
    \/ ResizeRP
    \/ ResizeUM
    \/ SetDefault
    \/ \E i \in 0 .. MaxCount : GetRanReal(i)
    \/ GetRanRealIdx
    \/ CheckComplex

\* the state after construction of the objects a specification is about;
\* the objects of the other headers do not exist in it
InitSector ==
    /\ gen \in [GenIds -> {GlobalSym("lat", n) : n \in GlobalSymGenerators}]
    /\ symRet = NoRet
    /\ sector = NoSector
    /\ lattice = [Ns |-> 1, BC |-> "PBC"]
    /\ model = [x \in Slots |-> NoModel]
    /\ sykRet = NoSykRet
    /\ dirty = [x \in Slots |-> {}]
    /\ modp = ModP
    /\ modpRet = NoModpRet
    /\ nCalls = 0

InitGen ==
    /\ gen \in [GenIds -> {GlobalSym("lat", n) : n \in GlobalSymGenerators}]
    /\ symRet = NoRet
    /\ sector = NoSector
    /\ lattice = [Ns |-> 1, BC |-> "PBC"]
    /\ model = [x \in Slots |-> NoModel]
    /\ sykRet = NoSykRet
    /\ dirty = [x \in Slots |-> {}]
    /\ modp = ModP
    /\ modpRet = NoModpRet
    /\ nCalls = 0

InitCtor ==
    /\ gen = [g \in GenIds |-> GlobalSym("lat", "OTHER")]
    /\ symRet = NoRet
    /\ sector = NoSector
    /\ lattice \in [Ns : 1 .. MaxSites, BC : BoundaryConditions]
    /\ model = [x \in Slots |-> NoModel]
    /\ sykRet = NoSykRet
    /\ dirty = [x \in Slots |-> {}]
    /\ modp = ModP
    /\ modpRet = NoModpRet
    /\ nCalls = 0

InitSYK ==
    /\ gen = [g \in GenIds |-> GlobalSym("lat", "OTHER")]
    /\ symRet = NoRet
    /\ sector = NoSector
    /\ lattice \in [Ns : 1 .. MaxSites, BC : BoundaryConditions]
    /\ model = [x \in Slots |-> NoModel]
    /\ sykRet = NoSykRet
    /\ dirty = [x \in Slots |-> {}]
    /\ modp = ModP
    /\ modpRet = NoModpRet
    /\ nCalls = 0

InitModP ==
    /\ gen = [g \in GenIds |-> GlobalSym("lat", "OTHER")]
    /\ symRet = NoRet
    /\ sector = NoSector
    /\ lattice = [Ns |-> 1, BC |-> "PBC"]
    /\ model = [x \in Slots |-> NoModel]
    /\ sykRet = NoSykRet
    /\ dirty = [x \in Slots |-> {}]
    /\ modp = ModP
    /\ modpRet = NoModpRet
    /\ nCalls = 0

SpecSector == InitSector /\ [][NextSector]_vars

SpecGen == InitGen /\ [][NextGen]_vars

SpecCtor == InitCtor /\ [][NextCtor]_vars

SpecSYK == InitSYK /\ [][NextSYK]_vars

SpecModP == InitModP /\ [][NextModP]_vars

(***************************************************************************)
(* Claims about global_symmetries.h                                        *)
(***************************************************************************)
\* number of sites i < ns whose bit is set in s, counted site by site
BitsSet(s, ns) == Cardinality({i \in 0 .. (ns - 1) : (s \div Pow2(i)) % 2 = 1})

\* Pascal's rule
RECURSIVE Binomial(_, _)
Binomial(n, k) ==
    IF k < 0 \/ k > n THEN 0
    ELSE IF k = 0 \/ k = n THEN 1
    ELSE Binomial(n - 1, k - 1) + Binomial(n - 1, k)

Range(q) == {q[i] : i \in 1 .. Len(q)}

Ascending(q) == \A i \in 1 .. (Len(q) - 1) : q[i] < q[i + 1]

\* the last enumeration was made by a single generator holding U1Sym
U1Sector ==
    /\ sector.built
    /\ sector.err = "none"
    /\ Len(sector.by) = 1
    /\ sector.by[1].check_ = "U1Sym"

\* C2: enumerating 0 .. 2^Ns - 1 in ascending order and keeping the states a
\* generator with predicate U1Sym and target k in 0 .. Ns accepts yields
\* exactly the states with k bits set, in ascending order, C(Ns, k) of them;
\* for Ns = 4 and k = 2 that is 3, 5, 6, 9, 10, 12.
C2_U1SectorIsBinomial ==
    (U1Sector /\ sector.by[1].val_ \in 0 .. sector.ns) =>
        LET ns == sector.ns
            k  == sector.by[1].val_
        IN  /\ Range(sector.states) = {s \in States(ns) : BitsSet(s, ns) = k}
            /\ Ascending(sector.states)
            /\ Len(sector.states) = Binomial(ns, k)
            /\ (ns = 4 /\ k = 2) => sector.states = <<3, 5, 6, 9, 10, 12>>

C2_Witness ==
    /\ U1Sector
    /\ sector.ns = 4
    /\ sector.by[1].val_ = 2
    /\ Len(sector.states) = 6

\* C9: for every Ns the U(1) sectors with targets 0 .. Ns partition
\* 0 .. 2^Ns - 1: every state is accepted for exactly one target; the states
\* of an enumerated sector are accepted for no other target, and every state
\* left out of it is accepted for another one.
C9_U1SectorsPartition ==
    sector.built =>
        LET ns == sector.ns
            U1(k) == [gen["g1"] EXCEPT !.check_ = "U1Sym", !.val_ = k]
            Cell(k) == {s \in States(ns) : callOp(U1(k), s) = "true"}
        IN  /\ \A s \in States(ns) :
                   Cardinality({k \in 0 .. ns : s \in Cell(k)}) = 1
            /\ (U1Sector /\ sector.by[1].val_ \in 0 .. ns) =>
                   /\ \A s \in Range(sector.states) :
                          \A k \in (0 .. ns) \ {sector.by[1].val_} : s \notin Cell(k)
                   /\ \A s \in States(ns) \ Range(sector.states) :
                          \E k \in (0 .. ns) \ {sector.by[1].val_} : s \in Cell(k)

C9_Witness ==
    /\ U1Sector
    /\ sector.ns = 3
    /\ sector.by[1].val_ = 1
    /\ sector.states = <<1, 2, 4>>

\* C3: operator() or check() on a generator whose predicate was never
\* installed (whatever its name, U1 included) ends in an error for every
\* state and both outer conditions; it never returns true or false.
C3_UnsetPredicateFails ==
    \A g \in GenIds :
        gen[g].check_ = "empty" =>
            /\ \A s \in States(StateBits) :
                   /\ callOp(gen[g], s) = "bad_function_call"
                   /\ \A oc \in BOOLEAN : check(gen[g], s, oc) = "bad_function_call"
            /\ (symRet.op # "none" /\ symRet.g = g) => symRet.out = "bad_function_call"

C3_Witness ==
    /\ symRet.op = "check"
    /\ symRet.outCond = FALSE
    /\ gen[symRet.g].check_ = "empty"
    /\ gen[symRet.g].name_ = "U1"
    /\ symRet.out = "bad_function_call"

\* what an installed predicate answers, stated on the site occupations
Holds(fun, s, v) ==
    \/ fun = "U1Sym" /\ BitsSet(s, StateBits) = v
    \/ fun = "ParityEq" /\ BitsSet(s, StateBits) % 2 = v

BoolStr(b) == IF b THEN "true" ELSE "false"

\* C8: with an installed predicate check(state, outerCondition) returns
\* exactly predicate(state, target) AND outerCondition and changes neither
\* the target nor the predicate; chaining the checks of two generators on a
\* state gives the same answer in either order of the generators.
C8_CheckIsConjunction ==
    [][ /\ (symRet' # symRet /\ symRet'.op = "check"
            /\ gen[symRet'.g].check_ # "empty") =>
               /\ symRet'.out =
                      BoolStr(Holds(gen[symRet'.g].check_, symRet'.state,
                                    gen[symRet'.g].val_) /\ symRet'.outCond)
               /\ gen' = gen
        /\ (symRet' # symRet /\ symRet'.op = "chain"
            /\ \A g \in GenIds : gen[g].check_ # "empty") =>
               /\ symRet'.out =
                      BoolStr(\A g \in GenIds :
                                  Holds(gen[g].check_, symRet'.state, gen[g].val_))
               /\ symRet'.out = chain(gen[CHOOSE h \in GenIds : h # symRet'.g],
                                      gen[symRet'.g], symRet'.state)
               /\ gen' = gen
      ]_vars

C8_Witness ==
    /\ symRet.op = "check"
    /\ symRet.outCond = FALSE
    /\ gen[symRet.g].check_ = "U1Sym"
    /\ U1Sym(symRet.state, gen[symRet.g].val_)
    /\ symRet.out = "false"

(***************************************************************************)
(* Claims about SYK2.h                                                     *)
(***************************************************************************)
\* the boundary condition a model renders: its lattice's, PBC without one
BCof(m) == IF m.lat_ = "null" THEN "PBC" ELSE lattice.BC

Built == {x \in Slots : model[x].built}

\* C4 as stated: whatever the construction paths, two models with the same
\* site count have the same Ns, Nh, type tag SYK2_M and cached info string.
C4_PathsEquivalent ==
    \A x \in Built, y \in Built :
        model[x].Ns_ = model[y].Ns_ =>
            /\ model[x].Nh = model[y].Nh
            /\ model[x].type_ = "SYK2_M" /\ model[y].type_ = "SYK2_M"
            /\ model[x].info_ = model[y].info_

\* C4, amended: every constructor ends with the type tag SYK2_M, Nh equal to
\* the site count and info_ equal to info(); two models with the same site
\* count have the same Nh and type tag, the same cached info string when the
\* boundary condition they render is the same (the lattice's, PBC without a
\* lattice), and hamiltonian() at the same position of the random stream
\* fills the same matrix.
C4_PathsEquivalentSameBC ==
    /\ \A x \in Built :
          /\ model[x].type_ = "SYK2_M"
          /\ model[x].Nh = model[x].Ns_
          /\ model[x].info_ = infoDefault(model[x])
          /\ model[x].info_ =
                 <<"_", "SYK2,Ns=", ToString(model[x].Ns_), ",BC=", BCof(model[x])>>
    /\ \A x \in Built, y \in Built :
          model[x].Ns_ = model[y].Ns_ =>
              /\ model[x].Nh = model[y].Nh
              /\ BCof(model[x]) = BCof(model[y]) => model[x].info_ = model[y].info_
              /\ model[x].ran_ = model[y].ran_ => model[x].H_ = model[y].H_

C4_Witness ==
    /\ Built = Slots
    /\ model["a"].path = "lattice"
    /\ model["b"].path = "hilbertMove"
    /\ model["b"].lat_ = "null"
    /\ model["a"].Ns_ = model["b"].Ns_
    /\ lattice.BC = "PBC"
    /\ model["a"].info_ = model["b"].info_
    /\ model["a"].ran_ = 1 /\ model["b"].ran_ = 1
    /\ model["a"].H_.n_rows = model["a"].Nh

\* C5: after every hamiltonian() call H_ is exactly Nh x Nh and holds only
\* the sample of that call, divided by sqrt(Nh), with a zero imaginary part:
\* nothing of an earlier fill is added to it or left in it, and no other
\* field than the buffer and the random stream changes.
C5_HamiltonianOverwrites ==
    [][ (sykRet'.op = "hamiltonian" /\ model' # model) =>
            LET m  == model[sykRet'.slot]
                m2 == model'[sykRet'.slot]
            IN  /\ m2.H_.n_rows = m.Nh /\ m2.H_.n_cols = m.Nh
                /\ DOMAIN m2.H_.mem = 1 .. m.Nh
                /\ m2.H_.den = m.Nh
                /\ \A i \in 1 .. m.Nh :
                       /\ DOMAIN m2.H_.mem[i] = 1 .. m.Nh
                       /\ \A j \in 1 .. m.Nh :
                              /\ m2.H_.mem[i][j] = GOE(m.ran_, m.Nh).mem[i][j]
                              /\ m2.H_.mem[i][j] = m2.H_.mem[j][i]
                /\ m2 = [m EXCEPT !.H_ = m2.H_, !.ran_ = m.ran_ + 1]
      ]_vars

C5_Witness ==
    /\ sykRet.op = "hamiltonian"
    /\ model["a"].ran_ = 2
    /\ model["a"].Nh = 2
    /\ model["a"].H_.n_rows = 2
    /\ model["a"].H_.mem[1][2] = GOE(1, 2).mem[1][2]

\* C6: info() changes no field and two calls with the same arguments and no
\* mutation in between return the same string; right after construction and
\* after every updateInfo() info_ equals info() with default arguments; a
\* parameter mutation leaves info_ as it was, and the following updateInfo()
\* changes info_ only in the fields of the parameters mutated since.
C6_InfoPureAndCached ==
    /\ [](\A x \in Built :
             (dirty[x] = {} \/ (sykRet.slot = x /\ sykRet.op \in {"SYK2", "updateInfo"}))
                 => model[x].info_ = infoDefault(model[x]))
    /\ [][ /\ sykRet'.op = "info" =>
                 /\ model' = model /\ lattice' = lattice
                 /\ (sykRet.op = "info" /\ sykRet'.sep = sykRet.sep
                     /\ sykRet'.skip = sykRet.skip) => sykRet'.out = sykRet.out
                 /\ (sykRet'.sep = "_" /\ dirty[sykRet'.slot] = {})
                        => sykRet'.out = model[sykRet'.slot].info_
           /\ sykRet'.op \in {"setSites", "setBC"} =>
                 \A x \in Built : model'[x].info_ = model[x].info_
           /\ sykRet'.op = "updateInfo" =>
                 LET old == model[sykRet'.slot].info_
                     new == model'[sykRet'.slot].info_
                 IN  /\ Len(new) = Len(old)
                     /\ \A i \in 1 .. Len(new) :
                            new[i] # old[i] =>
                                \E f \in dirty[sykRet'.slot] : FieldOf[f] = i
         ]_vars

C6_Witness ==
    /\ sykRet.op = "updateInfo"
    /\ model["a"].path = "lattice"
    /\ model["a"].Ns_ # lattice.Ns
    /\ model["a"].info_[3] = ToString(model["a"].Ns_)
    /\ lattice.BC = "OBC"
    /\ model["a"].info_[5] = "OBC"

(***************************************************************************)
(* Claims about user_interface_modp.hpp                                    *)
(***************************************************************************)
\* C1: a resize whose target size would be negative clamps to zero and does
\* not throw: after resizeQSM() (resizeUM()) with Ntot < N the call has
\* returned normally and qsm_alpha_, qsm_xi_, qsm_h_ (um_alpha_) have size
\* zero; after resizeRP() with a negative rp_g_sweep_n_ so has rp_g_.
C1_ResizeClampsToZero ==
    /\ (modpRet.op = "resizeQSM" /\ modp.qsm_Ntot_ < modp.qsm_N_) =>
           /\ modpRet.err = "none"
           /\ Len(modp.qsm_alpha_) = 0 /\ Len(modp.qsm_xi_) = 0 /\ Len(modp.qsm_h_) = 0
    /\ (modpRet.op = "resizeUM" /\ modp.um_Ntot_ < modp.um_N_) =>
           /\ modpRet.err = "none"
           /\ Len(modp.um_alpha_) = 0
    /\ (modpRet.op = "resizeRP" /\ modp.rp_g_sweep_n_ < 0) =>
           /\ modpRet.err = "none"
           /\ Len(modp.rp_g_) = 0

\* C7: after setDefault(), from any prior state of the record, every model
\* family holds a minimally valid configuration: each of its coupling arrays
\* is non-empty and each of its scalar parameters equals its declared default.
C7_SetDefaultPopulatesAll ==
    modpRet.op = "setDefault" =>
        \A f \in DOMAIN Families :
            /\ \A a \in Families[f].arrays : Len(modp[a]) > 0
            /\ \A s \in Families[f].scalars : modp[s] = Declared[s]

\* C10: getRanReal(i) and getRanReal() read only an element inside modRanN_,
\* whatever the list holds (the empty list included): the element at the
\* index when the index is below the size of the list, the last one otherwise.
C10_GetRanRealInBounds ==
    modpRet.op = "getRanReal" =>
        /\ modpRet.err = "none"
        /\ LessU64(modpRet.idx, U64(Len(modp.modRanN_)))
        /\ Len(modp.modRanN_) > 0
        /\ modpRet.ret = IF modpRet.arg < Len(modp.modRanN_)
                         THEN modp.modRanN_[modpRet.arg + 1]
                         ELSE modp.modRanN_[Len(modp.modRanN_)]

====
